---- MODULE Spec2Model ----
(***************************************************************************)
(* Teams relay bot: conversation reference store, per-turn message         *)
(* handler, proactive notify endpoint and the AI response normalizer.      *)
(*                                                                         *)
(* Two builds of the bot class are in the repository: the plain one        *)
(* (src/src/teamsBot.ts) and the telemetry-instrumented one                *)
(* (src/unnamed/part_000).  The variable `variant` says which one runs.    *)
(***************************************************************************)
EXTENDS Integers, Sequences, FiniteSets, TLC

(***************************************************************************)
(* JavaScript values.  Every value is a record tagged by t; each tag has   *)
(* its own field set.  A string is one of                                  *)
(*   - a text that is not JSON            [t |-> "str", txt |-> ...]       *)
(*   - the JSON text of a value           [t |-> "str", json, pretty]      *)
(*   - a template literal with its holes  [t |-> "str", tpl, args]         *)
(***************************************************************************)
Undefined == [t |-> "undefined"]

Null == [t |-> "null"]

Bool(b) == [t |-> "bool", b |-> b]

Num(n) == [t |-> "num", n |-> n]

Text(s) == [t |-> "str", txt |-> s]

Arr(es) == [t |-> "arr", elems |-> es]

Obj(fs) == [t |-> "obj", fields |-> fs]

Tpl(name, as) == [t |-> "str", tpl |-> name, args |-> as]

IsStr(v) == v.t = "str"

IsText(v) == IsStr(v) /\ "txt" \in DOMAIN v

IsJsonText(v) == IsStr(v) /\ "json" \in DOMAIN v

IsTpl(v) == IsStr(v) /\ "tpl" \in DOMAIN v

IsArray(v) == v.t = "arr"

IsObj(v) == v.t = "obj"

Nullish(v) == v.t \in {"undefined", "null"}

\* JavaScript ToBoolean
Truthy(v) ==
  CASE v.t = "undefined" -> FALSE
    [] v.t = "null" -> FALSE
    [] v.t = "bool" -> v.b
    [] v.t = "num" -> v.n # 0
    [] IsText(v) -> v.txt # ""
    [] OTHER -> TRUE

\* a || b
OrElse(a, b) == IF Truthy(a) THEN a ELSE b

\* v.f for a value that is not null or undefined (the caller checks Nullish)
Get(v, f) ==
  IF IsObj(v) /\ f \in DOMAIN v.fields THEN v.fields[f] ELSE Undefined

\* v?.f
OptGet(v, f) == IF Nullish(v) THEN Undefined ELSE Get(v, f)

\* v[0] for a value that is not null or undefined and not a string
First(v) ==
  IF IsArray(v) /\ Len(v.elems) > 0 THEN v.elems[1] ELSE Undefined

\* JSON.stringify(v) and JSON.stringify(v, null, 2): the indented text
\* differs from the compact one only for a non-empty array or object
Stringify(v, indent) ==
  [t |-> "str", json |-> v,
   pretty |-> indent /\ ((IsArray(v) /\ v.elems # <<>>) \/
                         (IsObj(v) /\ DOMAIN v.fields # {}))]

\* String(v), as a template literal hole does it
ToStr(v) ==
  CASE IsStr(v) -> v
    [] v.t = "undefined" -> Text("undefined")
    [] v.t = "obj" -> Text("[object Object]")
    [] v.t = "arr" -> Tpl("Array.join", v.elems)
    [] OTHER -> Stringify(v, FALSE)

\* results of a computation that may throw
Ok(v) == [thrown |-> FALSE, val |-> v]

Throw == [thrown |-> TRUE, val |-> Undefined]

\* JSON.parse(v): the argument is converted to a string first
JSONparse(v) ==
  LET s == ToStr(v)
  IN IF IsJsonText(s) THEN Ok(s.json) ELSE Throw

(***************************************************************************)
(* Response normalizer (identical in both builds of the bot class).        *)
(***************************************************************************)
NoFields == [f \in {} |-> Undefined]

RoleIs(msg, r) == Get(msg, "role") = Text(r)

\* one entry of the numbered list: index, name and the optional lines
UserEntry(user, i) ==
  Tpl("user", <<Num(i), OrElse(Get(user, "display_name"), Text("No name")),
                Get(user, "job_title"), Get(user, "department"),
                Get(user, "mail")>>)

formatUserList(users) ==
  IF Len(users) = 0 THEN Ok(Text("No users found."))
  ELSE IF \E i \in 1..Len(users) : Nullish(users[i]) THEN Throw
  ELSE Ok(Tpl("Found user(s)",
              <<Num(Len(users))>> \o
              [i \in 1..Len(users) |-> UserEntry(users[i], i)]))

\* the content of the tool message handed back bare
ToolResultBare(result) == Get(result, "content")

\* `Tool result: ${result.content}`
ToolResultText(result) == Tpl("Tool result", <<Get(result, "content")>>)

processToolResults(toolResults) ==
  IF Len(toolResults) = 1
  THEN LET result == toolResults[1]
           parsedContent == JSONparse(Get(result, "content"))
       IN IF parsedContent.thrown THEN ToolResultText(result)
          ELSE IF IsArray(parsedContent.val)
                  /\ Truthy(OptGet(First(parsedContent.val), "display_name"))
               THEN LET formatted == formatUserList(parsedContent.val.elems)
                    IN IF formatted.thrown THEN ToolResultText(result)
                       ELSE formatted.val
               ELSE ToolResultText(result)
  ELSE Tpl("Received tool results", <<Num(Len(toolResults))>>)

processConversationArray(messages) ==
  LET lastMessage == IF Len(messages) > 0 THEN messages[Len(messages)]
                     ELSE Undefined
      toolResults == SelectSeq(messages, LAMBDA msg : RoleIs(msg, "tool"))
  IN IF Truthy(lastMessage) /\ RoleIs(lastMessage, "assistant")
     THEN Ok(OrElse(Get(lastMessage, "content"),
                    Text("No content in assistant response")))
     ELSE IF \E i \in 1..Len(messages) : Nullish(messages[i]) THEN Throw
     ELSE IF Len(toolResults) > 0 THEN Ok(processToolResults(toolResults))
     ELSE Ok(Tpl("Received messages",
                 <<Num(Len(messages)),
                   OrElse(OptGet(lastMessage, "content"), Text("No content"))>>))

processToolCallResponse(response) ==
  IF Truthy(Get(response, "tool_calls"))
  THEN LET toolCall == First(Get(response, "tool_calls"))
           fn == OptGet(toolCall, "function")
       IN IF Nullish(toolCall) THEN Throw
          ELSE Ok(Tpl("Executed tool",
                      <<OrElse(OptGet(fn, "name"), Text("Unknown")),
                        Stringify(OrElse(OptGet(fn, "arguments"), Obj(NoFields)),
                                  FALSE)>>))
  ELSE IF Truthy(Get(response, "function_call"))
  THEN Ok(Tpl("Function call",
              <<Get(Get(response, "function_call"), "name"),
                Get(Get(response, "function_call"), "arguments")>>))
  ELSE Ok(Text("Tool call response received"))

contentFields == <<"content", "text", "message", "response", "result", "data">>

extractMeaningfulContent(obj) ==
  LET hit(i) == Truthy(Get(obj, contentFields[i])) /\ IsStr(Get(obj, contentFields[i]))
  IN IF \E i \in 1..Len(contentFields) : hit(i)
     THEN LET i == CHOOSE j \in 1..Len(contentFields) :
                     hit(j) /\ \A k \in 1..(j - 1) : ~hit(k)
          IN Get(obj, contentFields[i])
     ELSE Stringify(obj, TRUE)

\* the response field checked after the message field
resolveSingleMessageFirst(jsonResponse) ==
  IF Nullish(jsonResponse) THEN Throw
  ELSE IF Truthy(Get(jsonResponse, "role")) /\ Truthy(Get(jsonResponse, "content"))
       THEN Ok(Get(jsonResponse, "content"))
  ELSE IF Truthy(Get(jsonResponse, "message"))
       THEN Ok(Get(jsonResponse, "message"))
  ELSE IF Truthy(Get(jsonResponse, "response"))
       THEN Ok(Get(jsonResponse, "response"))
  ELSE IF Truthy(Get(jsonResponse, "tool_calls"))
          \/ Truthy(Get(jsonResponse, "function_call"))
       THEN processToolCallResponse(jsonResponse)
  ELSE Ok(extractMeaningfulContent(jsonResponse))

\* processAIResponse on a parsed value that is not an array
resolveSingle(jsonResponse) ==
  IF Nullish(jsonResponse) THEN Throw
  ELSE IF Truthy(Get(jsonResponse, "role")) /\ Truthy(Get(jsonResponse, "content"))
       THEN Ok(Get(jsonResponse, "content"))
  ELSE IF Truthy(Get(jsonResponse, "response"))
       THEN Ok(Get(jsonResponse, "response"))
  ELSE IF Truthy(Get(jsonResponse, "message"))
       THEN Ok(Get(jsonResponse, "message"))
  ELSE IF Truthy(Get(jsonResponse, "tool_calls"))
          \/ Truthy(Get(jsonResponse, "function_call"))
       THEN processToolCallResponse(jsonResponse)
  ELSE Ok(extractMeaningfulContent(jsonResponse))

\* the body of the try block of processAIResponse
processAIResponseTry(response) ==
  LET parsed == JSONparse(response)
      jsonResponse == parsed.val
  IN IF parsed.thrown THEN Throw
     ELSE IF IsArray(jsonResponse) THEN processConversationArray(jsonResponse.elems)
     ELSE resolveSingle(jsonResponse)

\* a catch block that reports the failure instead of returning the text
plainTextFallbackReportsError(response) ==
  Text("Sorry, the response could not be processed")

\* the catch block of processAIResponse: the text as it came
plainTextFallback(response) == response

processAIResponse(response) ==
  LET r == processAIResponseTry(response)
  IN IF r.thrown THEN Ok(plainTextFallback(response)) ELSE r

HistoryItem(role, content) == [role |-> role, content |-> content]

\* the system role passes the filter as well
relevantRolesWithSystem ==
  {Text("user"), Text("assistant"), Text("tool"), Text("system")}

relevantRoles == {Text("user"), Text("assistant"), Text("tool")}

\* the first assistant message instead of the last
firstAssistantMessage(relevantMessages) ==
  LET assistants ==
        SelectSeq(relevantMessages, LAMBDA msg : RoleIs(msg, "assistant"))
  IN IF Len(assistants) > 0 THEN assistants[1] ELSE Undefined

\* relevantMessages.filter(msg => msg.role === 'assistant').pop()
lastAssistantMessage(relevantMessages) ==
  LET assistants ==
        SelectSeq(relevantMessages, LAMBDA msg : RoleIs(msg, "assistant"))
  IN IF Len(assistants) > 0 THEN assistants[Len(assistants)] ELSE Undefined

\* the body of the try block of parseConversationResponse
parseConversationResponseTry(response) ==
  LET parsed == JSONparse(response)
      parsedResponse == parsed.val
  IN IF parsed.thrown THEN Throw
     ELSE IF IsArray(parsedResponse)
     THEN LET msgs == parsedResponse.elems
              relevantMessages ==
                SelectSeq(msgs, LAMBDA msg : Truthy(OptGet(msg, "role"))
                                             /\ OptGet(msg, "role") \in relevantRoles)
              conversationItems ==
                [i \in 1..Len(relevantMessages) |->
                   HistoryItem(Get(relevantMessages[i], "role"),
                               OrElse(Get(relevantMessages[i], "content"), Text("")))]
              lastAssistant == lastAssistantMessage(relevantMessages)
              displayMessage ==
                IF Truthy(lastAssistant)
                THEN OrElse(Get(lastAssistant, "content"),
                            Text("Response received"))
                ELSE Text("Conversation processed successfully")
          IN IF \E i \in 1..Len(msgs) : Nullish(msgs[i]) THEN Throw
             ELSE Ok([displayMessage |-> displayMessage,
                      conversationItems |-> conversationItems])
     ELSE Ok([displayMessage |-> response,
              conversationItems |-> <<HistoryItem(Text("assistant"), response)>>])

\* no catch block: a failure inside the try block escapes
parseConversationResponseNoCatch(response) ==
  LET r == parseConversationResponseTry(response)
  IN IF r.thrown
     THEN [thrown |-> TRUE,
           val |-> [displayMessage |-> Undefined, conversationItems |-> <<>>]]
     ELSE r

parseConversationResponse(response) ==
  LET r == parseConversationResponseTry(response)
  IN IF r.thrown
     THEN Ok([displayMessage |-> response,
              conversationItems |-> <<HistoryItem(Text("assistant"), response)>>])
     ELSE r

(***************************************************************************)
(* The bot: identities, inbound activities, the conversation reference     *)
(* store.                                                                  *)
(***************************************************************************)
\* a field that is not there (undefined)
Absent == "<absent>"

\* platform (Teams) user ids
Users == {"u1", "u2"}

\* directory (Entra) object id of a user; only u1 has one in this model
AadOf(u) == IF u = "u1" THEN "a1" ELSE Absent

Convs == {"c1", "c2"}

\* property names every JavaScript object inherits from Object.prototype
ObjectPrototypeKeys ==
  {"constructor", "toString", "valueOf", "hasOwnProperty", "__proto__"}

\* activity.text as it arrives: the word, and whether it is upper-cased,
\* prefixed by a mention of the bot, padded by line breaks and blanks
RawText(word, upper, mention, breaks) ==
  [word |-> word, upper |-> upper, mention |-> mention, breaks |-> breaks]

NoText == RawText(Absent, FALSE, FALSE, FALSE)

InboundTexts ==
  {NoText,
   RawText("/cls", FALSE, FALSE, FALSE),
   RawText("/new", TRUE, TRUE, TRUE),
   RawText("show", FALSE, TRUE, FALSE),
   RawText("hello", TRUE, FALSE, TRUE)}

Activities ==
  {act \in [from : Users, aad : {Absent} \cup {AadOf(u) : u \in Users},
            conv : Convs, text : InboundTexts] :
     act.aad \in {Absent, AadOf(act.from)}}

\* removeRecipientMention, toLowerCase, replace(/\n|\r/g, ""), trim: applied
\* when the text left after removing the mention is truthy; an absent text
\* stays undefined
NormalizeText(text) ==
  IF text.word = Absent THEN text
  ELSE [text EXCEPT !.upper = FALSE, !.mention = FALSE, !.breaks = FALSE]

\* a text exactly as a string literal of the code has it
Literal(word) == RawText(word, FALSE, FALSE, FALSE)

\* keys of the SSO command map (the map itself is not in the sources)
SSOCommandMap == {Literal("show")}

\* TurnContext.getConversationReference(activity)
ConversationReferenceOf(activity) ==
  [user |-> activity.from, aad |-> activity.aad, conv |-> activity.conv]

\* what a lookup gives when there is nothing: undefined
NoRef == [user |-> Absent, aad |-> Absent, conv |-> Absent]

\* what a lookup gives for a name inherited from Object.prototype
InheritedRef == [user |-> "Object.prototype", aad |-> Absent, conv |-> Absent]

EmptyStore == [k \in {} |-> NoRef]

\* conversationReferences[key] on a plain object
Lookup(refs, key) ==
  IF key \in DOMAIN refs THEN refs[key]
  ELSE IF key \in ObjectPrototypeKeys THEN InheritedRef
  ELSE NoRef

\* refs[key] = ref
Put(refs, key, ref) ==
  [k \in DOMAIN refs \cup {key} |-> IF k = key THEN ref ELSE refs[k]]

\* a reference already stored for the user is kept
addConversationReferenceKeepsFirst(build, refs, activity) ==
  LET ref == ConversationReferenceOf(activity)
      byUser == IF ref.user \in DOMAIN refs THEN refs ELSE Put(refs, ref.user, ref)
  IN IF build = "rich" /\ activity.aad # Absent
     THEN Put(byUser, activity.aad, ref)
     ELSE byUser

\* the directory identity is never used as a key
addConversationReferenceUserOnly(build, refs, activity) ==
  Put(refs, activity.from, ConversationReferenceOf(activity))

\* addConversationReference of the two builds
addConversationReference(build, refs, activity) ==
  LET ref == ConversationReferenceOf(activity)
      byUser == Put(refs, ref.user, ref)
  IN IF build = "rich" /\ activity.aad # Absent
     THEN Put(byUser, activity.aad, ref)
     ELSE byUser

\* messageHistoryAccessor is declared and never assigned
messageHistoryAccessor == Undefined

\* the accessor is touched first: the throw leaves the references in place
clearConversationHistoryThrowsFirst(refs, session_id) ==
  [refs |-> IF Nullish(messageHistoryAccessor) THEN refs ELSE EmptyStore,
   rejected |-> Nullish(messageHistoryAccessor),
   requests |-> IF Nullish(messageHistoryAccessor) THEN <<>> ELSE <<session_id>>]

\* the synchronous start of clearConversationHistory: the references are
\* wiped, then messageHistoryAccessor.set(...) is evaluated; on undefined it
\* throws, which rejects the promise the async function returned, and the
\* POST of {session_id} to the clear_history endpoint, which comes after it,
\* is not issued
clearConversationHistory(refs, session_id) ==
  [refs |-> EmptyStore,
   rejected |-> Nullish(messageHistoryAccessor),
   requests |-> IF Nullish(messageHistoryAccessor) THEN <<>> ELSE <<session_id>>]

(***************************************************************************)
(* The agent client.                                                       *)
(***************************************************************************)
AssistantReply == Obj([role |-> Text("assistant"), content |-> Text("hi")])

UserTurn == Obj([role |-> Text("user"), content |-> Text("q")])

\* how the fetch of the agent endpoint can end: a 2xx answer with a JSON
\* body, a 2xx answer whose body is not JSON, another status, no answer
AgentOutcome(kind, status, data) ==
  [kind |-> kind, status |-> status, data |-> data]

AgentOutcomes ==
  {AgentOutcome("ok", 200, Obj([response |-> Text("hi"), message |-> Text("m")])),
   AgentOutcome("ok", 200, Obj([message |-> Text("m")])),
   AgentOutcome("ok", 200,
                Obj([response |-> Stringify(Arr(<<UserTurn, AssistantReply>>), FALSE)])),
   AgentOutcome("ok", 200, Text("plain")),
   AgentOutcome("ok", 200, Arr(<<AssistantReply, UserTurn>>)),
   AgentOutcome("ok", 200, Obj([response |-> Num(5)])),
   AgentOutcome("badjson", 200, Undefined),
   AgentOutcome("status", 500, Undefined),
   AgentOutcome("neterr", 0, Undefined)}

\* no fetch has ended yet
NoOutcome == AgentOutcome("none", 0, Undefined)

AGENT_URL == Text("http://localhost:8989/agent_chat")

\* the Error that reaches the catch block of getAIResponse
FetchError(outcome) ==
  CASE outcome.kind = "status" ->
         Tpl("HTTP error! status", <<Num(outcome.status), AGENT_URL>>)
    [] outcome.kind = "badjson" -> Text("Unexpected token in JSON")
    [] OTHER -> Text("fetch failed")

Apology(errorMessage) ==
  Tpl("Sorry, I encountered an error while processing your request",
      <<errorMessage>>)

\* the field extraction on the parsed body
ExtractResponseText(data) ==
  IF Truthy(data) /\ Truthy(Get(data, "response")) THEN Get(data, "response")
  ELSE IF Truthy(data) /\ Truthy(Get(data, "message")) THEN Get(data, "message")
  ELSE IF IsStr(data) THEN data
  ELSE Stringify(data, FALSE)

\* v.length is defined for strings and arrays
HasLength(v) == IsStr(v) \/ IsArray(v)

\* the failure is handed back as it is, without the apology around it
getAIResponseBareError(build, outcome) ==
  IF outcome.kind # "ok" THEN FetchError(outcome)
  ELSE ExtractResponseText(outcome.data)

\* what getAIResponse resolves to once the fetch has ended
getAIResponse(build, outcome) ==
  IF outcome.kind # "ok" THEN Apology(FetchError(outcome))
  ELSE LET responseText == ExtractResponseText(outcome.data)
       IN IF build = "rich" /\ ~HasLength(responseText)
          THEN Apology(Text("Cannot read properties of undefined (reading 'toString')"))
          ELSE responseText

\* message.length is read before the try block of the instrumented build:
\* an undefined message makes getAIResponse reject instead of resolving
getAIResponseRejects(build, txt) == build = "rich" /\ txt.word = Absent

(***************************************************************************)
(* State.                                                                  *)
(***************************************************************************)
VARIABLES
  variant,                 \* "basic": src/src/teamsBot.ts, "rich": part_000
  dialog,                  \* this.dialog: "SSODialog" or "null"
  conversationReferences,  \* the store: key -> conversation reference
  turns,                   \* the inbound message turns in flight
  notifies,                \* the /api/notify requests in flight
  lastSeen,                \* per user, the conversation of the latest
                           \* message recorded since the last clear
  nodeProcess,             \* the Node process: "running" or "exited"
  response,                \* normalizer: the agent reply under study
  phase,                   \* normalizer: which function has been applied
  output                   \* normalizer: what it returned

vars == <<variant, dialog, conversationReferences, turns, notifies, lastSeen,
          nodeProcess, response, phase, output>>

botVars == <<variant, dialog, conversationReferences, turns, notifies, lastSeen,
            nodeProcess>>

normVars == <<response, phase, output>>

Turns == {"t1"}

Notifies == {"n1"}

NoActivity == [from |-> Absent, aad |-> Absent, conv |-> Absent, text |-> NoText]

\* the operations the message pipeline times with startOperation
TimerNames ==
  {"ProcessMessage", "MessageHandler", "AI_Response", "External_AI_API",
   "Clear_Conversation_History"}

\* no timer has been stopped
NoStops == [name \in TimerNames |-> <<>>]

\* a request slot of POST /api/messages: pc is the position of the message
\* handler, stage the position of the pipeline around it
IdleTurn ==
  [pc |-> "idle", act |-> NoActivity, txt |-> NoText, sessionId |-> Absent,
   calls |-> 0, aiResponse |-> Undefined, reply |-> Undefined,
   wiped |-> {}, rejected |-> FALSE, error |-> Absent,
   outcome |-> NoOutcome, clearRequests |-> <<>>, log |-> <<>>,
   stage |-> "idle", http |-> 0, tracked |-> Absent, notice |-> Undefined,
   started |-> {}, stops |-> NoStops, clearSession |-> Absent,
   processError |-> [message |-> Absent, includes412 |-> FALSE],
   events |-> {}, rethrown |-> FALSE]

NoBody == [text |-> Absent, keys |-> {}, detail |-> Absent]

NoDelivery == [conv |-> Absent, message |-> Undefined]

IdleNotify ==
  [pc |-> "idle", userId |-> Absent, message |-> Undefined, ref |-> NoRef,
   hadKey |-> FALSE, keys |-> {}, attempts |-> 0, status |-> 0,
   body |-> NoBody, delivered |-> NoDelivery, error |-> Absent,
   tracked |-> Absent, responses |-> 0, stops |-> <<>>]

NoOutput == [thrown |-> FALSE, display |-> Undefined, items |-> <<>>]

\* the normalizer is not under study
NormAtRest == response = Undefined /\ phase = "none" /\ output = NoOutput

InitBot ==
  /\ variant \in {"basic", "rich"}
  \* only the instrumented build survives a failing SSODialog constructor
  /\ dialog \in IF variant = "rich" THEN {"SSODialog", "null"} ELSE {"SSODialog"}
  /\ conversationReferences = EmptyStore
  /\ turns = [t \in Turns |-> IdleTurn]
  /\ notifies = [n \in Notifies |-> IdleNotify]
  /\ lastSeen = [u \in Users |-> Absent]
  /\ nodeProcess = "running"

Init ==
  /\ InitBot
  /\ NormAtRest

(***************************************************************************)
(* The message handler (onMessage), one action per run between two awaits. *)
(***************************************************************************)
\* the request slot is free: no activity was received in it, or the request
\* of its activity has ended
TurnOver(t) == turns[t].stage \in {"idle", "answered"}

\* the Node process is serving requests
Running == nodeProcess = "running"

\* telemetryService.startOperation(name) for every name of names
startOperation(turn, names) == [turn EXCEPT !.started = @ \cup names]

\* timer.stop(success) of the timer called name
stop(turn, name, success) ==
  [turn EXCEPT !.stops[name] = Append(@, success)]

\* a promise that rejects with nobody awaiting it: the runtime reports it to
\* an unhandledRejection listener where the host has installed one, and
\* otherwise ends the process; the sources install none
unhandledRejection(rejected) ==
  IF rejected THEN {"running", "exited"} ELSE {"running"}

\* the handler has returned: the instrumented build has stopped messageTimer
\* as handlerStops says, bot.run resolves, the callback given to
\* adapter.process stops the ProcessMessage timer with success and the
\* adapter ends the request
HandlerReturns(build, turn, handlerStops) ==
  LET handled == IF build = "rich"
                 THEN [turn EXCEPT !.stops["MessageHandler"] = @ \o handlerStops]
                 ELSE turn
  IN [stop(handled, "ProcessMessage", TRUE) EXCEPT !.stage = "answered",
                                                   !.http = 200]

\* the handler has thrown err: the instrumented build stops messageTimer in
\* its catch block and rethrows, the callback given to adapter.process stops
\* the ProcessMessage timer with failure and rethrows, the adapter hands the
\* error to onTurnError, which reports it with trackException and awaits
\* sendTraceActivity
HandlerThrows(build, turn, err) ==
  LET handled == IF build = "rich" THEN stop(turn, "MessageHandler", FALSE)
                 ELSE turn
  IN [stop(handled, "ProcessMessage", FALSE) EXCEPT !.pc = "failed",
                                                    !.error = err,
                                                    !.tracked = err,
                                                    !.stage = "trace"]

IsReset(txt) == txt = Literal("/cls") \/ txt = Literal("/new")

\* an SSO command without a dialog falls to the agent path
RouteSsoToAgent(build, dlg, txt) ==
  IF build = "rich" /\ IsReset(txt) THEN "confirm"
  ELSE IF txt \in SSOCommandMap /\ ~(build = "rich" /\ dlg = "null")
  THEN "dialog"
  ELSE "typing"

\* the branch of the handler a normalized text takes, named by the await it
\* stops at: the reset branch exists in the instrumented build only, and
\* only there is this.dialog tested before it is run
Route(build, dlg, txt) ==
  IF build = "rich" /\ IsReset(txt) THEN "confirm"
  ELSE IF txt \in SSOCommandMap
  THEN IF build = "rich" /\ dlg = "null" THEN "ssoUnavailable" ELSE "dialog"
  ELSE "typing"

\* the timers running when the handler reaches its first await
TimersAtArrival(build, route) ==
  {"ProcessMessage"}
    \cup (IF build = "rich" THEN {"MessageHandler"} ELSE {})
    \cup (IF route = "confirm" THEN {"Clear_Conversation_History"} ELSE {})

\* the branch is chosen and started with the reference not yet written
MessageArrivesRoutesFirst(t, act) ==
  LET txt == NormalizeText(act.text)
      cleared == clearConversationHistory(conversationReferences, act.aad)
      route == Route(variant, dialog, txt)
      started == [IdleTurn EXCEPT !.act = act, !.txt = txt, !.pc = route,
                                  !.stage = "handler",
                                  !.started = TimersAtArrival(variant, route)]
  IN /\ Running
     /\ TurnOver(t)
     /\ conversationReferences' =
          IF route = "confirm" THEN cleared.refs ELSE conversationReferences
     /\ lastSeen' = IF route = "confirm" THEN [u \in Users |-> Absent] ELSE lastSeen
     /\ turns' = [turns EXCEPT ![t] =
          IF route = "confirm"
          THEN [started EXCEPT !.wiped = DOMAIN conversationReferences,
                               !.rejected = cleared.rejected,
                               !.clearRequests = cleared.requests,
                               !.clearSession = act.aad,
                               !.log = <<"clearConversationHistory">>]
          ELSE [started EXCEPT !.log =
                  IF route = "dialog" THEN <<"dialog.run">> ELSE <<>>]]
     /\ nodeProcess' \in unhandledRejection(route = "confirm" /\ cleared.rejected)
     /\ UNCHANGED <<variant, dialog, notifies, normVars>>

\* from the arrival of the activity to the first await of the handler
MessageArrives(t, act) ==
  LET txt == NormalizeText(act.text)
      recorded == addConversationReference(variant, conversationReferences, act)
      cleared == clearConversationHistory(recorded, act.aad)
      route == Route(variant, dialog, txt)
      started == [IdleTurn EXCEPT !.act = act, !.txt = txt, !.pc = route,
                                  !.stage = "handler",
                                  !.started = TimersAtArrival(variant, route)]
  IN /\ Running
     /\ TurnOver(t)
     /\ IF route = "confirm"
        THEN \* the promise of clearConversationHistory is not awaited and
             \* is truthy: the confirmation is sent next
             /\ conversationReferences' = cleared.refs
             /\ lastSeen' = [u \in Users |-> Absent]
             /\ turns' = [turns EXCEPT ![t] =
                            [started EXCEPT !.wiped = DOMAIN recorded,
                                            !.rejected = cleared.rejected,
                                            !.clearRequests = cleared.requests,
                                            !.clearSession = act.aad,
                                            !.log = <<"clearConversationHistory">>]]
             /\ nodeProcess' \in unhandledRejection(cleared.rejected)
        ELSE /\ conversationReferences' = recorded
             /\ lastSeen' = [lastSeen EXCEPT ![act.from] = act.conv]
             /\ turns' = [turns EXCEPT ![t] =
                            [started EXCEPT !.log =
                               IF route = "dialog" THEN <<"dialog.run">> ELSE <<>>]]
             /\ nodeProcess' = nodeProcess
     /\ UNCHANGED <<variant, dialog, notifies, normVars>>

\* the conversation id is taken for the session id
aiUserIdOfConversation(activity) == activity.conv

\* from.aadObjectId || from.id: the session_id of the request body
aiUserId(activity) ==
  IF activity.aad # Absent THEN activity.aad ELSE activity.from

\* sendActivity({type: "typing"}) has returned: the agent is called; the
\* instrumented build starts the AI_Response timer and, in getAIResponse,
\* the External_AI_API timer
TypingSent(t) ==
  LET turn == IF variant = "rich"
              THEN startOperation(turns[t], {"AI_Response", "External_AI_API"})
              ELSE turns[t]
  IN /\ Running
     /\ turn.pc = "typing"
     /\ turns' = [turns EXCEPT ![t] =
          IF getAIResponseRejects(variant, turn.txt)
          THEN \* the catch block around the call stops the AI_Response
               \* timer and rethrows
               HandlerThrows(variant,
                 [stop(turn, "AI_Response", FALSE) EXCEPT
                    !.sessionId = aiUserId(turn.act),
                    !.log = Append(turn.log, "typing")],
                 "TypeError")
          ELSE [turn EXCEPT !.pc = "agent", !.sessionId = aiUserId(turn.act),
                            !.calls = turn.calls + 1,
                            !.log = turn.log \o <<"typing", "fetch">>]]
     /\ UNCHANGED <<variant, dialog, conversationReferences, notifies, lastSeen,
                    nodeProcess, normVars>>

\* the stops of the External_AI_API timer on the way out of getAIResponse:
\* a status that is not 2xx stops it before the throw and again in the catch
\* block
ExternalStops(outcome) ==
  IF outcome.kind = "status" THEN <<FALSE, FALSE>>
  ELSE IF outcome.kind # "ok" THEN <<FALSE>>
  ELSE IF ~HasLength(ExtractResponseText(outcome.data)) THEN <<FALSE>>
  ELSE <<TRUE>>

\* a failed fetch is tried once more
AgentReturnsRetries(t, outcome) ==
  /\ Running
  /\ turns[t].pc = "agent"
  /\ turns' = [turns EXCEPT ![t] =
       IF outcome.kind # "ok" /\ turns[t].calls < 2
       THEN [turns[t] EXCEPT !.calls = 2, !.log = Append(turns[t].log, "fetch")]
       ELSE [turns[t] EXCEPT !.pc = "reply", !.outcome = outcome,
                             !.aiResponse = getAIResponse(variant, outcome),
                             !.log = Append(turns[t].log, "resolved")]]
  /\ UNCHANGED <<variant, dialog, conversationReferences, notifies, lastSeen,
                 nodeProcess, normVars>>

\* the fetch has ended; getAIResponse resolves, the reply is handed to
\* sendActivity as it is
AgentReturns(t, outcome) ==
  /\ Running
  /\ turns[t].pc = "agent"
  /\ turns' = [turns EXCEPT ![t].pc = "reply",
                            ![t].outcome = outcome,
                            ![t].aiResponse = getAIResponse(variant, outcome),
                            ![t].stops["External_AI_API"] =
                               IF variant = "rich" THEN ExternalStops(outcome)
                               ELSE @,
                            ![t].log = Append(turns[t].log, "resolved")]
  /\ UNCHANGED <<variant, dialog, conversationReferences, notifies, lastSeen,
                 nodeProcess, normVars>>

\* the reply goes out before getAIResponse has resolved
ReplySentEarly(t) ==
  /\ Running
  /\ turns[t].pc \in {"agent", "reply"}
  /\ turns' = [turns EXCEPT ![t] =
       HandlerReturns(variant,
         [turns[t] EXCEPT !.pc = "done", !.reply = turns[t].aiResponse,
                          !.log = Append(turns[t].log, "reply")],
         <<TRUE>>)]
  /\ UNCHANGED <<variant, dialog, conversationReferences, notifies, lastSeen,
                 nodeProcess, normVars>>

\* sendActivity(aiResponse) has returned: the AI_Response timer is stopped,
\* then messageTimer at the end of the try block
ReplySent(t) ==
  LET turn == IF variant = "rich" THEN stop(turns[t], "AI_Response", TRUE)
              ELSE turns[t]
  IN /\ Running
     /\ turn.pc = "reply"
     /\ turns' = [turns EXCEPT ![t] =
          HandlerReturns(variant,
            [turn EXCEPT !.pc = "done", !.reply = turn.aiResponse,
                         !.log = Append(turn.log, "reply")],
            <<TRUE>>)]
     /\ UNCHANGED <<variant, dialog, conversationReferences, notifies, lastSeen,
                    nodeProcess, normVars>>

\* "New conversation started.  Prior history has been cleared." was sent:
\* messageTimer is stopped and the handler returns
ConfirmationSent(t) ==
  /\ Running
  /\ turns[t].pc = "confirm"
  /\ turns' = [turns EXCEPT ![t] =
       HandlerReturns(variant,
         [turns[t] EXCEPT
            !.pc = "done",
            !.reply = Text("New conversation started.  Prior history has been cleared."),
            !.log = Append(turns[t].log, "confirmation")],
         <<TRUE>>)]
  /\ UNCHANGED <<variant, dialog, conversationReferences, notifies, lastSeen,
                 nodeProcess, normVars>>

\* "SSO functionality is not available. ..." was sent: messageTimer is
\* stopped with failure and, at the end of the try block, with success
SsoUnavailableSent(t) ==
  /\ Running
  /\ turns[t].pc = "ssoUnavailable"
  /\ turns' = [turns EXCEPT ![t] =
       HandlerReturns(variant,
         [turns[t] EXCEPT
            !.pc = "done",
            !.reply = Text("SSO functionality is not available. Please check the bot configuration."),
            !.log = Append(turns[t].log, "ssoUnavailable")],
         <<FALSE, TRUE>>)]
  /\ UNCHANGED <<variant, dialog, conversationReferences, notifies, lastSeen,
                 nodeProcess, normVars>>

\* this.dialog.run(context, this.dialogState) has returned: messageTimer is
\* stopped after the dialog and again at the end of the try block
DialogReturns(t) ==
  /\ Running
  /\ turns[t].pc = "dialog"
  /\ turns' = [turns EXCEPT ![t] =
       HandlerReturns(variant, [turns[t] EXCEPT !.pc = "done"], <<TRUE, TRUE>>)]
  /\ UNCHANGED <<variant, dialog, conversationReferences, notifies, lastSeen,
                 nodeProcess, normVars>>

DialogThrows(t) ==
  /\ Running
  /\ turns[t].pc = "dialog"
  /\ turns' = [turns EXCEPT ![t] = HandlerThrows(variant, turns[t], "DialogError")]
  /\ UNCHANGED <<variant, dialog, conversationReferences, notifies, lastSeen,
                 nodeProcess, normVars>>

\* a pending sendActivity rejects: the handler rethrows; around the reply
\* the instrumented build first stops the AI_Response timer
SendThrows(t) ==
  LET turn == IF variant = "rich" /\ turns[t].pc = "reply"
              THEN stop(turns[t], "AI_Response", FALSE)
              ELSE turns[t]
  IN /\ Running
     /\ turn.pc \in {"typing", "reply", "confirm", "ssoUnavailable"}
     /\ turns' = [turns EXCEPT ![t] = HandlerThrows(variant, turn, "SendError")]
     /\ UNCHANGED <<variant, dialog, conversationReferences, notifies, lastSeen,
                    nodeProcess, normVars>>

(***************************************************************************)
(* The turn pipeline around the handler: onTurnError and POST /api/messages.*)
(***************************************************************************)
\* `The bot encountered unhandled error:\n ${error.message}`
Notice(err) == Tpl("The bot encountered unhandled error", <<Text(err)>>)

\* sendTraceActivity of onTurnError has returned
TraceSent(t) ==
  /\ Running
  /\ turns[t].stage = "trace"
  /\ turns' = [turns EXCEPT ![t].stage = "notice"]
  /\ UNCHANGED <<variant, dialog, conversationReferences, notifies, lastSeen,
                 nodeProcess, normVars>>

\* the notice with the error message was sent to the user
NoticeSent(t) ==
  /\ Running
  /\ turns[t].stage = "notice"
  /\ turns' = [turns EXCEPT ![t].stage = "advice",
                            ![t].notice = Notice(turns[t].error)]
  /\ UNCHANGED <<variant, dialog, conversationReferences, notifies, lastSeen,
                 nodeProcess, normVars>>

\* "To continue to run this bot, please fix the bot source code." was sent:
\* onTurnError returns and the adapter ends the request
AdviceSent(t) ==
  /\ Running
  /\ turns[t].stage = "advice"
  /\ turns' = [turns EXCEPT ![t].stage = "answered", ![t].http = 200]
  /\ UNCHANGED <<variant, dialog, conversationReferences, notifies, lastSeen,
                 nodeProcess, normVars>>

\* a send of onTurnError rejects: the adapter answers the request with 500
TurnErrorSendThrows(t) ==
  /\ Running
  /\ turns[t].stage \in {"trace", "notice", "advice"}
  /\ turns' = [turns EXCEPT ![t].stage = "answered", ![t].http = 500]
  /\ UNCHANGED <<variant, dialog, conversationReferences, notifies, lastSeen,
                 nodeProcess, normVars>>

\* an error adapter.process can reject with: its message and whether the
\* message includes "412"
ProcessError(message, includes412) ==
  [message |-> message, includes412 |-> includes412]

ProcessErrors ==
  {ProcessError("processActivity(): 412 ERROR", TRUE),
   ProcessError("invalid request body", FALSE)}

\* every rejection is taken for the consent flow
ProcessRejectsSwallowsAll(t, err) ==
  /\ Running
  /\ TurnOver(t)
  /\ turns' = [turns EXCEPT ![t] =
       [stop(startOperation(IdleTurn, {"ProcessMessage"}), "ProcessMessage", TRUE)
          EXCEPT !.stage = "answered", !.processError = err,
                 !.events = {"SSO_ConsentRequired"}]]
  /\ UNCHANGED <<variant, dialog, conversationReferences, notifies, lastSeen,
                 nodeProcess, normVars>>

\* adapter.process rejects with err before the handler has run: the catch
\* callback takes a message that includes "412" for the consent flow of SSO,
\* emits SSO_ConsentRequired and stops the timer with success; any other
\* error stops the timer with failure and is rethrown, the outer catch block
\* stops the timer again and rethrows, and the router answers 500
ProcessRejects(t, err) ==
  LET request == [startOperation(IdleTurn, {"ProcessMessage"}) EXCEPT
                    !.stage = "answered", !.processError = err]
  IN /\ Running
     /\ TurnOver(t)
     /\ turns' = [turns EXCEPT ![t] =
          IF err.includes412
          THEN [stop(request, "ProcessMessage", TRUE) EXCEPT
                  !.events = {"SSO_ConsentRequired"}]
          ELSE [stop(stop(request, "ProcessMessage", FALSE),
                     "ProcessMessage", FALSE) EXCEPT
                  !.rethrown = TRUE, !.http = 500]]
     /\ UNCHANGED <<variant, dialog, conversationReferences, notifies, lastSeen,
                    nodeProcess, normVars>>

(***************************************************************************)
(* The proactive notifier: POST /api/notify.                               *)
(***************************************************************************)
\* req.body.user_id: users, a directory id, an id never seen, a name every
\* object inherits, and no user_id at all
NotifyUserIds == Users \cup {"a1", "u9", "constructor", Absent}

\* req.body.message: a string, none, a value that is not a string
NotifyMessages == {Text("hello there"), Undefined, Num(5)}

\* a property name is a string: undefined becomes "undefined"
PropertyKey(userId) == IF userId = Absent THEN "undefined" ELSE userId

DefaultNotifyMessage == Text("This is a proactive message!")

\* a response body: its text, the keys it lists, the error detail it carries
Body(text, keys, detail) == [text |-> text, keys |-> keys, detail |-> detail]

\* the TypeError of message.length.toString() ends the handler with nobody
\* answering the request
NotifyArrivesThrowUnanswered(n, userId, msg) ==
  LET message == OrElse(msg, DefaultNotifyMessage)
      reference == Lookup(conversationReferences, PropertyKey(userId))
      req == [IdleNotify EXCEPT !.userId = userId, !.message = message,
                                !.keys = DOMAIN conversationReferences,
                                !.hadKey = PropertyKey(userId) \in
                                             DOMAIN conversationReferences]
  IN /\ Running
     /\ notifies[n].pc \in {"idle", "answered"}
     /\ notifies' = [notifies EXCEPT ![n] =
          IF ~HasLength(message)
          THEN [req EXCEPT !.pc = "answered", !.error = "TypeError",
                           !.stops = <<FALSE>>]
          ELSE IF reference # NoRef
          THEN [req EXCEPT !.pc = "delivering", !.ref = reference,
                           !.attempts = 1]
          ELSE [req EXCEPT !.pc = "answered", !.status = 404,
                           !.body = Body("User not found. Available users: ",
                                         DOMAIN conversationReferences, Absent),
                           !.responses = 1, !.stops = <<FALSE>>]]
     /\ UNCHANGED <<variant, dialog, conversationReferences, turns, lastSeen,
                    nodeProcess, normVars>>

\* from the arrival of the request to the await of continueConversationAsync
\* or to the 404 answer
NotifyArrives(n, userId, msg) ==
  LET message == OrElse(msg, DefaultNotifyMessage)
      reference == Lookup(conversationReferences, PropertyKey(userId))
      req == [IdleNotify EXCEPT !.userId = userId, !.message = message,
                                !.keys = DOMAIN conversationReferences,
                                !.hadKey = PropertyKey(userId) \in
                                             DOMAIN conversationReferences]
  IN /\ Running
     /\ notifies[n].pc \in {"idle", "answered"}
     /\ notifies' = [notifies EXCEPT ![n] =
          IF ~HasLength(message)
          THEN \* message.length.toString() throws; the catch block stops
               \* the timer and rethrows, and the router's error handler
               \* answers
               [req EXCEPT !.pc = "answered", !.status = 500,
                           !.body = Body("Internal Server Error", {}, Absent),
                           !.error = "TypeError",
                           !.responses = 1, !.stops = <<FALSE>>]
          ELSE IF reference # NoRef
          THEN [req EXCEPT !.pc = "delivering", !.ref = reference,
                           !.attempts = 1]
          ELSE [req EXCEPT !.pc = "answered", !.status = 404,
                           !.body = Body("User not found. Available users: ",
                                         DOMAIN conversationReferences, Absent),
                           !.responses = 1, !.stops = <<FALSE>>]]
     /\ UNCHANGED <<variant, dialog, conversationReferences, turns, lastSeen,
                    nodeProcess, normVars>>

\* continueConversationAsync resolved: the callback has sent the message
NotifyDelivered(n) ==
  /\ Running
  /\ notifies[n].pc = "delivering"
  /\ notifies' = [notifies EXCEPT
       ![n].pc = "answered", ![n].status = 200,
       ![n].body = Body("Message sent", {}, Absent),
       ![n].delivered = [conv |-> notifies[n].ref.conv,
                         message |-> notifies[n].message],
       ![n].responses = @ + 1,
       ![n].stops = Append(@, TRUE)]
  /\ UNCHANGED <<variant, dialog, conversationReferences, turns, lastSeen,
                 nodeProcess, normVars>>

NotifyErrors == {"ReopenError", "SendError"}

\* the delivery is tried a second time before the 500 is answered
NotifyDeliveryFailsRetries(n, err) ==
  /\ Running
  /\ notifies[n].pc = "delivering"
  /\ notifies' = [notifies EXCEPT ![n] =
       IF notifies[n].attempts < 2
       THEN [notifies[n] EXCEPT !.attempts = 2]
       ELSE [notifies[n] EXCEPT !.pc = "answered", !.status = 500,
               !.body = Body("Error sending message", {}, Absent),
               !.error = err, !.tracked = err,
               !.responses = @ + 1, !.stops = Append(@, FALSE)]]
  /\ UNCHANGED <<variant, dialog, conversationReferences, turns, lastSeen,
                 nodeProcess, normVars>>

\* continueConversationAsync rejected with err: the error goes to
\* trackException and to the timer, the answer is a fixed text
NotifyDeliveryFails(n, err) ==
  /\ Running
  /\ notifies[n].pc = "delivering"
  /\ notifies' = [notifies EXCEPT
       ![n].pc = "answered", ![n].status = 500,
       ![n].body = Body("Error sending message", {}, Absent),
       ![n].error = err, ![n].tracked = err,
       ![n].responses = @ + 1,
       ![n].stops = Append(@, FALSE)]
  /\ UNCHANGED <<variant, dialog, conversationReferences, turns, lastSeen,
                 nodeProcess, normVars>>

\* the message handler alone, on every activity and every agent outcome
Next ==
  \/ \E t \in Turns, act \in Activities : MessageArrives(t, act)
  \/ \E t \in Turns : TypingSent(t)
  \/ \E t \in Turns, outcome \in AgentOutcomes : AgentReturns(t, outcome)
  \/ \E t \in Turns : ReplySent(t)
  \/ \E t \in Turns : ConfirmationSent(t)
  \/ \E t \in Turns : SsoUnavailableSent(t)
  \/ \E t \in Turns : DialogReturns(t)
  \/ \E t \in Turns : DialogThrows(t)
  \/ \E t \in Turns : SendThrows(t)
  \/ \E t \in Turns : TraceSent(t)
  \/ \E t \in Turns : NoticeSent(t)
  \/ \E t \in Turns : AdviceSent(t)
  \/ \E t \in Turns : TurnErrorSendThrows(t)
  \/ \E t \in Turns, err \in ProcessErrors : ProcessRejects(t, err)

Spec == Init /\ [][Next]_vars

\* the activities that matter to the notifier: a chat message or a reset
\* from every identity
NotifyActivities ==
  {act \in Activities : act.text \in {RawText("/cls", FALSE, FALSE, FALSE),
                                      RawText("hello", TRUE, FALSE, TRUE)}}

NotifyAgentOutcomes ==
  {outcome \in AgentOutcomes : outcome.data = Text("plain")}

\* the notifier running beside the message handler; the sends of the
\* handler succeed here, their failures are followed in Spec
NextNotify ==
  \/ \E t \in Turns, act \in NotifyActivities : MessageArrives(t, act)
  \/ \E t \in Turns : TypingSent(t)
  \/ \E t \in Turns, outcome \in NotifyAgentOutcomes : AgentReturns(t, outcome)
  \/ \E t \in Turns : ReplySent(t)
  \/ \E t \in Turns : ConfirmationSent(t)
  \/ \E n \in Notifies, userId \in NotifyUserIds, msg \in NotifyMessages :
       NotifyArrives(n, userId, msg)
  \/ \E n \in Notifies : NotifyDelivered(n)
  \/ \E n \in Notifies, err \in NotifyErrors : NotifyDeliveryFails(n, err)

SpecNotify == Init /\ [][NextNotify]_vars

(***************************************************************************)
(* The normalizer under study: a reply is drawn, one of the two public     *)
(* functions is applied to it.                                             *)
(***************************************************************************)
\* longest JSON array drawn
MaxArr == 3

\* most fields of a JSON object drawn
MaxFields == 3

Msg(role, content) == Obj([role |-> Text(role), content |-> content])

MsgNoContent(role) == Obj([role |-> Text(role)])

UserRecord == Obj([display_name |-> Text("Ann"), mail |-> Text("ann@x")])

ArrayEntries ==
  {Null, Num(5), Obj([content |-> Text("A")]), Msg("system", Text("A")),
   Msg("user", Text("A")), MsgNoContent("user"),
   Msg("assistant", Text("A")), Msg("assistant", Text("B")),
   Msg("assistant", Text("")), MsgNoContent("assistant"),
   Msg("tool", Text("A")), MsgNoContent("tool"),
   Msg("tool", Stringify(Arr(<<UserRecord>>), FALSE)),
   Msg("tool", Stringify(Arr(<<UserRecord, Null>>), FALSE))}

JsonArrays ==
  {Arr(es) : es \in UNION {[1..n -> ArrayEntries] : n \in 0..MaxArr}}

ToolCall ==
  Obj([function |-> Obj([name |-> Text("lookup"),
                         arguments |-> Obj([q |-> Text("x")])])])

FieldNames ==
  {"role", "content", "response", "message", "tool_calls", "function_call",
   "text", "result", "data"}

FieldValues(f) ==
  CASE f = "role" -> {Text("assistant"), Text("")}
    [] f = "content" -> {Text("C"), Text(""), Num(7)}
    [] f = "response" -> {Text("hello"), Text(""), Null}
    [] f = "message" -> {Text("M"), Text("")}
    [] f = "tool_calls" -> {Arr(<<>>), Arr(<<ToolCall>>), Arr(<<Obj(NoFields)>>)}
    [] f = "function_call" ->
         {Obj([name |-> Text("f"), arguments |-> Text("{}")]), Obj(NoFields)}
    [] f = "text" -> {Text("T"), Num(1)}
    [] f = "result" -> {Text("R")}
    [] OTHER -> {Text("D"), Obj(NoFields)}

\* the field maps over the names S, each name with one of its values
RECURSIVE FieldMaps(_)
FieldMaps(S) ==
  IF S = {} THEN {NoFields}
  ELSE LET f == CHOOSE g \in S : TRUE
       IN {fs @@ (f :> v) : fs \in FieldMaps(S \ {f}), v \in FieldValues(f)}

JsonObjects ==
  UNION {{Obj(fs) : fs \in FieldMaps(S)} :
         S \in {T \in SUBSET FieldNames : Cardinality(T) <= MaxFields}}

JsonScalars == {Null, Num(5), Num(0), Bool(TRUE), Text("hi")}

\* texts JSON.parse rejects
PlainReplies == {Text("hello"), Text(""), Text("{not json")}

Replies ==
  PlainReplies \cup
  {Stringify(v, FALSE) : v \in JsonScalars \cup JsonArrays \cup JsonObjects}

InitNorm ==
  /\ InitBot
  /\ dialog = "SSODialog"
  /\ response \in Replies
  /\ phase = "none"
  /\ output = NoOutput

ApplyProcessAIResponse ==
  LET r == processAIResponse(response)
  IN /\ phase = "none"
     /\ phase' = "processAIResponse"
     /\ output' = [thrown |-> r.thrown, display |-> r.val, items |-> <<>>]
     /\ UNCHANGED <<response, botVars>>

ApplyParseConversationResponse ==
  LET r == parseConversationResponse(response)
  IN /\ phase = "none"
     /\ phase' = "parseConversationResponse"
     /\ output' = [thrown |-> r.thrown, display |-> r.val.displayMessage,
                   items |-> r.val.conversationItems]
     /\ UNCHANGED <<response, botVars>>

NextNorm == ApplyProcessAIResponse \/ ApplyParseConversationResponse

SpecNorm == InitNorm /\ [][NextNorm]_vars

(***************************************************************************)
(* Properties of the conversation reference store (Spec).                  *)
(***************************************************************************)
StoreKeys == (Users \cup {AadOf(u) : u \in Users}) \ {Absent}

\* the step in which turn t takes in its activity
Arrives(t) == TurnOver(t) /\ turns'[t].pc \notin {"idle", "done", "failed"}

\* the step clears the store on a reset command
ResetArrives(t) == Arrives(t) /\ turns'[t].pc = "confirm"

\* C1: with no reset in between, a lookup of platform user id U gives the
\* reference of the latest inbound message of U: its user is U and its
\* conversation id is that of this message, whatever was stored for U before
C1_LastWriteWins ==
  \A u \in Users :
    lastSeen[u] # Absent =>
      /\ Lookup(conversationReferences, u) # NoRef
      /\ Lookup(conversationReferences, u).user = u
      /\ Lookup(conversationReferences, u).conv = lastSeen[u]

\* u1 wrote from c1 with its directory id, then from c2: the platform key
\* holds the c2 reference, the c1 one survives only under the directory key
C1_Witness ==
  /\ variant = "rich"
  /\ lastSeen["u1"] = "c2"
  /\ Lookup(conversationReferences, "u1").conv = "c2"
  /\ Lookup(conversationReferences, "a1").conv = "c1"

\* C2: the step of a reset command leaves no entry under any key that was
\* stored before it, those of the user who sent the reset included,
\* platform ids and directory ids alike
C2_ClearWipesEveryKey ==
  [][\A t \in Turns :
       ResetArrives(t) =>
         \A k \in DOMAIN conversationReferences \cup turns'[t].wiped
                  \cup {turns'[t].act.from} :
           Lookup(conversationReferences', k) = NoRef]_vars

\* u2 sent the reset while u1 was stored under both of its keys
C2_Witness ==
  \E t \in Turns :
    /\ turns[t].pc = "confirm"
    /\ turns[t].act.from = "u2"
    /\ {"u1", "a1", "u2"} \subseteq turns[t].wiped
    /\ \A k \in StoreKeys : Lookup(conversationReferences, k) = NoRef

\* the keys an arriving activity writes, as the claim has it
DualKeys(act) == {act.from} \cup ({act.aad} \ {Absent})

\* C3 as stated: an activity with a directory identity leaves the same
\* reference under both keys after its step, one without leaves it under the
\* platform key, and no other key is written (a reset turn, which wipes the
\* store in the same step, is set apart)
C3_Original ==
  [][\A t \in Turns :
       (Arrives(t) /\ ~ResetArrives(t)) =>
         LET act == turns'[t].act
         IN /\ \A k \in DualKeys(act) :
                 Lookup(conversationReferences', k) = ConversationReferenceOf(act)
            /\ \A k \in StoreKeys \ DualKeys(act) :
                 Lookup(conversationReferences', k) = Lookup(conversationReferences, k)]_vars

\* the keys the build writes
WrittenKeys(act) ==
  IF variant = "rich" THEN DualKeys(act) ELSE {act.from}

\* C3 amended: the instrumented build stores the reference under both keys
\* when the activity has a directory identity and under the platform key
\* alone when it has none; the plain build writes the platform key alone in
\* both cases; a reset turn of the instrumented build is set apart, it wipes
\* the store right after recording
C3_DualKeyInstrumentedBuild ==
  [][\A t \in Turns :
       (Arrives(t) /\ ~ResetArrives(t)) =>
         LET act == turns'[t].act
         IN /\ \A k \in WrittenKeys(act) :
                 Lookup(conversationReferences', k) = ConversationReferenceOf(act)
            /\ \A k \in StoreKeys \ WrittenKeys(act) :
                 Lookup(conversationReferences', k) = Lookup(conversationReferences, k)]_vars

\* the instrumented build has just recorded an activity of u1 that carries
\* a1: both keys give its reference
C3_Witness ==
  \E t \in Turns :
    /\ variant = "rich"
    /\ turns[t].pc = "typing"
    /\ turns[t].act.aad = "a1"
    /\ Lookup(conversationReferences, "u1") = ConversationReferenceOf(turns[t].act)
    /\ Lookup(conversationReferences, "a1") = ConversationReferenceOf(turns[t].act)

(***************************************************************************)
(* Properties of the free-form chat path (Spec).                           *)
(***************************************************************************)
\* C6: the text sent back on the chat path is the normalizer's display
\* string of the agent's reply
C6_ReplyIsNormalized ==
  \A t \in Turns :
    (turns[t].pc = "done" /\ turns[t].calls = 1) =>
      turns[t].reply = processAIResponse(turns[t].aiResponse).val

(***************************************************************************)
(* Properties of the proactive notifier (SpecNotify).                      *)
(***************************************************************************)
\* the request of slot n has its answer
Answered(n) == notifies[n].pc = "answered"

\* C4: a notify request whose user_id is a key of the store delivers the
\* message into the conversation of the stored reference and is answered
\* 200 (a failed delivery, which has its own answer, set apart); a request
\* whose user_id is not a key of the store attempts no delivery and is
\* answered 404 with a body that lists the keys of the store (stated for the
\* requests whose message is a string or is left out)
C4_NotifyFoundOrNotFound ==
  \A n \in Notifies :
    (Answered(n) /\ HasLength(notifies[n].message)) =>
      /\ (notifies[n].hadKey /\ notifies[n].error = Absent) =>
            /\ notifies[n].status = 200
            /\ notifies[n].delivered =
                 [conv |-> notifies[n].ref.conv, message |-> notifies[n].message]
      /\ ~notifies[n].hadKey =>
            /\ notifies[n].status = 404
            /\ notifies[n].body =
                 Body("User not found. Available users: ", notifies[n].keys, Absent)
            /\ notifies[n].attempts = 0
            /\ notifies[n].delivered = NoDelivery

\* C5 as stated: when a reference was found and the delivery failed, the
\* answer is 500 and carries the detail of the error, after one attempt
C5_Original ==
  \A n \in Notifies :
    (Answered(n) /\ notifies[n].error \in NotifyErrors) =>
      /\ notifies[n].status = 500
      /\ notifies[n].body.detail = notifies[n].error
      /\ notifies[n].attempts = 1

\* C5 amended: when a reference was found and the delivery failed, the
\* answer is 500 with the fixed text 'Error sending message' and no detail
\* of the error; the error is handed to the exception tracking; the delivery
\* was attempted once and nothing was delivered
C5_FailureAnswersFixed500 ==
  \A n \in Notifies :
    (Answered(n) /\ notifies[n].error \in NotifyErrors) =>
      /\ notifies[n].status = 500
      /\ notifies[n].body = Body("Error sending message", {}, Absent)
      /\ notifies[n].tracked = notifies[n].error
      /\ notifies[n].attempts = 1
      /\ notifies[n].delivered = NoDelivery

\* a request for a stored key whose send failed has its 500
C5_Witness ==
  \E n \in Notifies :
    /\ Answered(n)
    /\ notifies[n].hadKey
    /\ notifies[n].error = "SendError"
    /\ notifies[n].status = 500
    /\ notifies[n].attempts = 1

(***************************************************************************)
(* Properties of the response normalizer (SpecNorm).                       *)
(***************************************************************************)
\* the reply is JSON text
Parses == ~JSONparse(response).thrown

Parsed == JSONparse(response).val

Applied == phase # "none"

Processed == phase = "processAIResponse"

ParsedConversation == phase = "parseConversationResponse"

\* C7: for a reply that is not JSON text, the result of processAIResponse
\* and the displayMessage of parseConversationResponse are the reply as it
\* came, and parseConversationResponse gives one history item, of role
\* assistant, whose content is the reply
C7_PlainTextUnchanged ==
  (Applied /\ ~Parses) =>
    /\ ~output.thrown
    /\ output.display = response
    /\ ParsedConversation =>
         output.items = <<HistoryItem(Text("assistant"), response)>>

\* parseConversationResponse was applied to text that opens like JSON
C7_Witness ==
  /\ ParsedConversation
  /\ response = Text("{not json")
  /\ output.display = Text("{not json")
  /\ Len(output.items) = 1

\* the entries of a reply that is a JSON array
Entries == Parsed.elems

AssistantAt(i) == RoleIs(Entries[i], "assistant")

HasAssistant ==
  Parses /\ IsArray(Parsed) /\ \E i \in 1..Len(Entries) : AssistantAt(i)

LastAssistant ==
  Entries[CHOOSE i \in 1..Len(Entries) :
            AssistantAt(i) /\ \A j \in (i + 1)..Len(Entries) : ~AssistantAt(j)]

HasNullEntry == \E i \in 1..Len(Entries) : Nullish(Entries[i])

\* C8 as stated: for a JSON array with an assistant entry, the display
\* string of both functions is the content of the last assistant entry,
\* wherever that entry stands
C8_Original ==
  (Applied /\ HasAssistant) =>
    output.display = Get(LastAssistant, "content")

\* C8 amended: for a JSON array with an assistant entry,
\* parseConversationResponse displays the content of the last assistant
\* entry wherever it stands, 'Response received' when that content is empty
\* or missing, and the reply as it came when the array has a null entry;
\* processAIResponse displays that content only when the assistant entry is
\* the last element of the array ('No content in assistant response' when
\* it is empty or missing), and otherwise a summary of the tool results or
\* of the message count (the reply as it came when the array has a null
\* entry), which is not the assistant's content
C8_LastAssistantByFunction ==
  (Applied /\ HasAssistant) =>
    /\ ~output.thrown
    /\ ParsedConversation =>
         output.display =
           IF HasNullEntry THEN response
           ELSE OrElse(Get(LastAssistant, "content"), Text("Response received"))
    /\ Processed =>
         IF AssistantAt(Len(Entries))
         THEN output.display =
                OrElse(Get(LastAssistant, "content"),
                       Text("No content in assistant response"))
         ELSE IF HasNullEntry THEN output.display = response
         ELSE /\ IsTpl(output.display)
              /\ output.display.tpl \in
                   {"Tool result", "Found user(s)", "Received tool results",
                    "Received messages"}

\* two assistant entries followed by a user entry: parseConversationResponse
\* displays the second assistant's content
C8_Witness ==
  /\ ParsedConversation
  /\ response = Stringify(Arr(<<Msg("assistant", Text("A")),
                                Msg("assistant", Text("B")),
                                Msg("user", Text("A"))>>), FALSE)
  /\ output.display = Text("B")

\* a JSON array all of whose entries have role user or role tool
OnlyUserAndTool ==
  /\ Parses
  /\ IsArray(Parsed)
  /\ \A i \in 1..Len(Entries) :
       RoleIs(Entries[i], "user") \/ RoleIs(Entries[i], "tool")

\* C9: for a JSON array that holds only user and tool entries, both
\* functions return without an exception and the display string is a string
\* that is not empty
C9_FallbackNotEmpty ==
  (Applied /\ OnlyUserAndTool) =>
    /\ ~output.thrown
    /\ IsStr(output.display)
    /\ output.display # Text("")

\* a user entry and a tool entry without content: processAIResponse gives
\* the tool result line
C9_Witness ==
  /\ Processed
  /\ response = Stringify(Arr(<<Msg("user", Text("A")), MsgNoContent("tool")>>),
                          FALSE)
  /\ output.display = Tpl("Tool result", <<Undefined>>)

\* the reply is one JSON object
SingleObject == Parses /\ IsObj(Parsed)

\* a rule applies to a field that is there with a value that counts as true
Has(f) == Truthy(Get(Parsed, f))

\* the name of the function a tool_calls or function_call shape calls
CalledName ==
  IF Has("tool_calls")
  THEN OptGet(OptGet(First(Get(Parsed, "tool_calls")), "function"), "name")
  ELSE Get(Get(Parsed, "function_call"), "name")

\* the text d has x in one of its holes
Contains(d, x) == IsTpl(d) /\ \E i \in 1..Len(d.args) : d.args[i] = x

StringFields ==
  {i \in 1..Len(contentFields) :
     Has(contentFields[i]) /\ IsStr(Get(Parsed, contentFields[i]))}

FirstStringField ==
  Get(Parsed, contentFields[CHOOSE i \in StringFields :
                              \A j \in StringFields : i <= j])

\* the six rules in their order, the fourth one given as toolRule
RuleChain(d, toolRule) ==
  IF Has("role") /\ Has("content") THEN d = Get(Parsed, "content")
  ELSE IF Has("response") THEN d = Get(Parsed, "response")
  ELSE IF Has("message") THEN d = Get(Parsed, "message")
  ELSE IF Has("tool_calls") \/ Has("function_call") THEN toolRule
  ELSE IF StringFields # {} THEN d = FirstStringField
  ELSE d = Stringify(Parsed, TRUE)

\* C10 as stated: for a reply that is one JSON object, the display string
\* of both functions follows the first rule that applies: role with content,
\* response, message, a tool call text that contains the function's name,
\* the first string among content, text, message, response, result, data,
\* the indented JSON; so {"response": "hello"} displays hello
C10_Original ==
  (Applied /\ SingleObject) =>
    RuleChain(output.display,
              Truthy(CalledName) => Contains(output.display, CalledName))

\* C10 amended: processAIResponse follows the six rules, a field counting
\* only when its value is true in JavaScript's sense; the tool call text
\* contains the function's name when tool_calls[0].function.name is there,
\* 'Unknown' when it is not, the reply comes back as it came when tool_calls
\* is an empty array, and a function_call text contains function_call.name
\* whatever it is; parseConversationResponse displays the reply as it came
\* and gives it as the one history item, of role assistant
C10_RulesInProcessAIResponse ==
  (Applied /\ SingleObject) =>
    /\ ~output.thrown
    /\ Processed =>
         RuleChain(output.display,
           IF Has("tool_calls")
           THEN IF Nullish(First(Get(Parsed, "tool_calls")))
                THEN output.display = response
                ELSE Contains(output.display, OrElse(CalledName, Text("Unknown")))
           ELSE Contains(output.display, CalledName))
    /\ ParsedConversation =>
         /\ output.display = response
         /\ output.items = <<HistoryItem(Text("assistant"), response)>>

\* an object with a response and a message: processAIResponse gives the
\* response
C10_Witness ==
  /\ Processed
  /\ response = Stringify(Obj([response |-> Text("hello"), message |-> Text("M")]),
                          FALSE)
  /\ output.display = Text("hello")

\* the tool entries of a reply that is a JSON array without null entries
ToolEntries == SelectSeq(Entries, LAMBDA msg : RoleIs(msg, "tool"))

\* processAIResponse hands the array to processToolResults
ReachesToolResults ==
  /\ Processed /\ Parses /\ IsArray(Parsed) /\ ~HasNullEntry
  /\ ~(Len(Entries) > 0 /\ AssistantAt(Len(Entries)))
  /\ Len(ToolEntries) > 0

\* the content of the one tool entry is not JSON, or is a user list with an
\* entry that has no fields to read
ToolContentFails ==
  /\ ReachesToolResults
  /\ Len(ToolEntries) = 1
  /\ LET inner == JSONparse(Get(ToolEntries[1], "content"))
     IN \/ inner.thrown
        \/ /\ IsArray(inner.val)
           /\ Truthy(OptGet(First(inner.val), "display_name"))
           /\ \E i \in 1..Len(inner.val.elems) : Nullish(inner.val.elems[i])

\* the reply itself does not parse, or a field is read on null or on
\* something that is not there
ReplyFails ==
  \/ ~Parses
  \/ Processed /\ Parses /\ Nullish(Parsed)
  \/ /\ Parses /\ IsArray(Parsed) /\ HasNullEntry
     /\ ParsedConversation \/ ~(Len(Entries) > 0 /\ AssistantAt(Len(Entries)))
  \/ /\ Processed /\ SingleObject
     /\ ~(Has("role") /\ Has("content")) /\ ~Has("response") /\ ~Has("message")
     /\ Has("tool_calls") /\ Nullish(First(Get(Parsed, "tool_calls")))

\* C11 as stated: both functions return normally on every input, and
\* whenever parsing or a field access fails the display string is the raw
\* text of the reply
C11_Original ==
  Applied =>
    /\ ~output.thrown
    /\ (ReplyFails \/ ToolContentFails) => output.display = response

\* C11 amended: both functions return normally on every input; when the
\* reply does not parse or a field access on the parsed reply fails, the
\* display string is the raw text of the reply (and parseConversationResponse
\* gives it as its one history item); when the failure is in reading the
\* content of the one tool entry, processAIResponse returns the line
\* 'Tool result: ' followed by that content instead
C11_NoExceptionEscapes ==
  Applied =>
    /\ ~output.thrown
    /\ ReplyFails =>
         /\ output.display = response
         /\ ParsedConversation =>
              output.items = <<[role |-> Text("assistant"), content |-> response]>>
    /\ ToolContentFails =>
         output.display = Tpl("Tool result", <<Get(ToolEntries[1], "content")>>)

\* parseConversationResponse was applied to an array with a null entry and
\* gave the raw text back
C11_Witness ==
  /\ ParsedConversation
  /\ response = Stringify(Arr(<<Msg("user", Text("A")), Null>>), FALSE)
  /\ output.display = response
  /\ ~output.thrown

\* the reply is a JSON array
ParsedArray == Parses /\ IsArray(Parsed)

\* the entries of the array whose role is user, assistant or tool, in their
\* order, each with its role and its content, '' for no content
KeptEntries ==
  SelectSeq(Entries,
            LAMBDA e : Get(e, "role") \in {Text("user"), Text("assistant"), Text("tool")})

ExpectedItems ==
  [i \in 1..Len(KeptEntries) |->
     [role |-> Get(KeptEntries[i], "role"),
      content |-> OrElse(Get(KeptEntries[i], "content"), Text(""))]]

\* C12 as stated: for a reply that is a JSON array the history items of
\* parseConversationResponse are the entries of role user, assistant or
\* tool, in their order, each with its role and content ('' when there is
\* none); system entries and entries without role give no item
C12_Original ==
  (ParsedConversation /\ ParsedArray) => output.items = ExpectedItems

\* C12 amended: the same for an array that has no null entry; for an array
\* with a null entry the filter fails on it and the one history item is the
\* raw reply under role assistant
C12_HistoryItemsOfArray ==
  (ParsedConversation /\ ParsedArray) =>
    output.items =
      IF HasNullEntry
      THEN <<[role |-> Text("assistant"), content |-> response]>>
      ELSE ExpectedItems

\* a system entry, a tool entry without content and an assistant entry: two
\* items, the tool one with '' as content
C12_Witness ==
  /\ ParsedConversation
  /\ response = Stringify(Arr(<<Msg("system", Text("A")), MsgNoContent("tool"),
                                Msg("assistant", Text("B"))>>), FALSE)
  /\ output.items = <<[role |-> Text("tool"), content |-> Text("")],
                      [role |-> Text("assistant"), content |-> Text("B")]>>

(***************************************************************************)
(* Properties of the agent client and of the routing of a turn (Spec).     *)
(***************************************************************************)
Started(t) == turns[t].pc # "idle"

Done(t) == turns[t].pc = "done"

Happened(t, event) == \E i \in 1..Len(turns[t].log) : turns[t].log[i] = event

Count(t, event) == Cardinality({i \in 1..Len(turns[t].log) : turns[t].log[i] = event})

\* the fetch of the agent endpoint ended without a usable answer
AgentFailed(t) == turns[t].outcome.kind \in {"status", "neterr", "badjson"}

\* the detail of a failed fetch: the status and the URL, or the message of
\* the exception
FailureDetail(t) ==
  CASE turns[t].outcome.kind = "status" ->
         Tpl("HTTP error! status", <<Num(turns[t].outcome.status), AGENT_URL>>)
    [] turns[t].outcome.kind = "badjson" -> Text("Unexpected token in JSON")
    [] OTHER -> Text("fetch failed")

\* C13: when the agent call has failed (a status that is not 2xx, no answer,
\* a body that is not JSON), getAIResponse has resolved to the apology text
\* with the detail of the failure in it, that text is what the handler sends
\* as the reply, and the turn does not fail unless the sending itself does
C13_AgentFailureApologizes ==
  \A t \in Turns :
    AgentFailed(t) =>
      /\ turns[t].aiResponse =
           Tpl("Sorry, I encountered an error while processing your request",
               <<FailureDetail(t)>>)
      /\ turns[t].pc \in {"reply", "done", "failed"}
      /\ Done(t) => turns[t].reply = turns[t].aiResponse
      /\ turns[t].pc = "failed" => turns[t].error = "SendError"

\* the agent answered 500 and the turn is over with the apology as reply
C13_Witness ==
  \E t \in Turns :
    /\ Done(t)
    /\ turns[t].outcome.kind = "status"
    /\ turns[t].reply =
         Tpl("Sorry, I encountered an error while processing your request",
             <<Tpl("HTTP error! status", <<Num(500), AGENT_URL>>)>>)

\* the text the claim has getAIResponse return for a 2xx body
ExtractedAsClaimed(data) ==
  IF IsObj(data) /\ Truthy(Get(data, "response")) THEN Get(data, "response")
  ELSE IF IsObj(data) /\ Truthy(Get(data, "message")) THEN Get(data, "message")
  ELSE IF IsStr(data) THEN data
  ELSE Stringify(data, FALSE)

\* C14: on a 2xx answer getAIResponse returns the response field of the
\* body when there is one, else the message field when there is one, else
\* the body when it is a string, else the body as JSON text; response goes
\* before message
C14_ExtractionPrecedence ==
  \A t \in Turns :
    turns[t].outcome.kind = "ok" =>
      turns[t].aiResponse = ExtractedAsClaimed(turns[t].outcome.data)

\* the turn went into the reset branch
TookReset(t) == Happened(t, "clearConversationHistory")

\* the turn carries an SSO command
IsSsoTurn(t) == Started(t) /\ turns[t].txt \in SSOCommandMap

\* C15: in one turn the agent endpoint is fetched at most once, whatever
\* the fetch ends in, and not at all in a turn of the reset branch or of the
\* SSO branch
C15_AtMostOneAgentCall ==
  \A t \in Turns :
    /\ turns[t].calls <= 1
    /\ Count(t, "fetch") = turns[t].calls
    /\ (TookReset(t) \/ IsSsoTurn(t)) => turns[t].calls = 0

\* a turn whose fetch got no answer is over after one call
C15_Witness ==
  \E t \in Turns :
    /\ Done(t)
    /\ turns[t].outcome.kind = "neterr"
    /\ turns[t].calls = 1

\* the turn carries a reset command
IsResetTurn(t) == Started(t) /\ IsReset(turns[t].txt)

Confirmation == Text("New conversation started.  Prior history has been cleared.")

\* the session id of the user of a turn: the directory id when there is
\* one, the platform id otherwise
SessionOf(t) ==
  IF turns[t].act.aad # Absent THEN turns[t].act.aad ELSE turns[t].act.from

\* C16: a turn whose normalized text is /cls or /new clears the history,
\* sends the confirmation and ends there, without a run of the SSO dialog
\* and without a call of the agent
C16_ResetClearsConfirmsTerminates ==
  \A t \in Turns :
    (IsResetTurn(t) /\ Done(t)) =>
      /\ Happened(t, "clearConversationHistory")
      /\ ~turns[t].rejected
      /\ turns[t].reply = Confirmation
      /\ ~Happened(t, "dialog.run")
      /\ turns[t].calls = 0

\* C17: when the clearing of a reset turn has failed, the confirmation is
\* not sent in that turn
C17_ClearFailureNotConfirmed ==
  \A t \in Turns :
    (IsResetTurn(t) /\ turns[t].rejected) =>
      /\ ~Happened(t, "confirmation")
      /\ turns[t].reply # Confirmation

\* C18: a reset turn that is over has sent one POST to the clear_history
\* endpoint, with the session id of its user
C18_ResetPostsClearHistory ==
  \A t \in Turns :
    (IsResetTurn(t) /\ Done(t)) => turns[t].clearRequests = <<SessionOf(t)>>

SsoUnavailable ==
  Text("SSO functionality is not available. Please check the bot configuration.")

\* C19: a turn with an SSO command never calls the agent; with a dialog the
\* dialog is run, and the turn fails only when the dialog does; without a
\* dialog the fixed message is sent and the turn is over without an
\* exception, unless the sending itself fails
C19_SsoBranch ==
  \A t \in Turns :
    IsSsoTurn(t) =>
      /\ turns[t].calls = 0
      /\ ~Happened(t, "fetch")
      /\ IF dialog = "SSODialog"
         THEN /\ Happened(t, "dialog.run")
              /\ turns[t].pc \in {"dialog", "done", "failed"}
              /\ turns[t].pc = "failed" => turns[t].error = "DialogError"
         ELSE /\ ~Happened(t, "dialog.run")
              /\ turns[t].pc \in {"ssoUnavailable", "done", "failed"}
              /\ Done(t) => turns[t].reply = SsoUnavailable
              /\ turns[t].pc = "failed" => turns[t].error = "SendError"

\* no dialog: the SSO command was answered by the fixed message
C19_Witness ==
  \E t \in Turns :
    /\ dialog = "null"
    /\ IsSsoTurn(t)
    /\ Done(t)
    /\ turns[t].reply = SsoUnavailable
    /\ turns[t].calls = 0

\* the turn is on the free-form chat path
IsChatTurn(t) == Started(t) /\ ~TookReset(t) /\ ~IsSsoTurn(t)

\* the steps of the chat path in their order
ChatSteps == <<"typing", "fetch", "resolved", "reply">>

IsPrefix(p, q) == Len(p) <= Len(q) /\ \A i \in 1..Len(p) : p[i] = q[i]

AgentCalled(t) == Happened(t, "fetch")

\* C21: the session id in the body of the request to the agent is the
\* sender's directory identity whenever the activity carries one, the
\* platform user id only when it does not, and never the conversation id
C21_SessionIdIsDirectoryIdentityFirst ==
  \A t \in Turns :
    AgentCalled(t) =>
      /\ turns[t].act.aad # Absent => turns[t].sessionId = turns[t].act.aad
      /\ turns[t].act.aad = Absent => turns[t].sessionId = turns[t].act.from
      /\ turns[t].sessionId # turns[t].act.conv

\* the agent was called for a sender with a directory identity
C21_Witness ==
  \E t \in Turns :
    /\ AgentCalled(t)
    /\ turns[t].act.aad = "a1"
    /\ turns[t].sessionId = "a1"
    /\ turns[t].pc = "done"

\* the reference of the turn's activity is in the store under the sender's
\* platform id
ReferenceWritten(t) ==
  Lookup(conversationReferences, turns[t].act.from) =
    ConversationReferenceOf(turns[t].act)

\* C22: in every inbound message turn, whichever branch it takes, the
\* sender's reference is written before the routing decision and before any
\* send, dialog run or external call: from the first state of the turn on
\* the reference is in the store, or, in a reset turn, its key is among the
\* keys the reset wiped; this holds also in a turn that has failed
C22_ReferenceWrittenBeforeRouting ==
  \A t \in Turns :
    Started(t) =>
      IF TookReset(t)
      THEN turns[t].act.from \in turns[t].wiped
      ELSE ReferenceWritten(t)

\* a turn of the SSO branch has failed in the dialog and the reference of
\* its sender is in the store
C22_Witness ==
  \E t \in Turns :
    /\ turns[t].pc = "failed"
    /\ turns[t].error = "DialogError"
    /\ ReferenceWritten(t)
    /\ turns[t].reply = Undefined

\* the handler of the turn has thrown
Threw(t) == turns[t].error # Absent

\* the pipeline of the turn has ended with the adapter's normal answer
EndedNormally(t) == turns[t].stage = "answered" /\ turns[t].http = 200

\* an error the handler has thrown has reached onTurnError: it was reported
\* with trackException, and once onTurnError has returned the user has the
\* notice with the error message
ThrownErrorsHandled ==
  \A t \in Turns :
    Threw(t) =>
      /\ turns[t].tracked = turns[t].error
      /\ EndedNormally(t) => turns[t].notice = Notice(turns[t].error)

\* C23: an exception raised anywhere inside a turn is caught by the
\* turn-error handler, which reports it to telemetry and sends the user the
\* unhandled-error notice with the error message; the process goes on
\* running, so later activities and notify requests are served
C23_TurnErrorHandlerCatchesAll ==
  /\ ThrownErrorsHandled
  /\ \A t \in Turns : turns[t].rejected => turns[t].tracked # Absent
  /\ nodeProcess = "running"

\* adapter.process has rejected in the request of slot t
ProcessRejected(t) == turns[t].processError.message # Absent

\* the stops of the ProcessMessage timer of slot t
ProcessMessageStops(t) == turns[t].stops["ProcessMessage"]

WorkErrors == {"SendError", "DialogError"}

\* the reply of the turn has gone out
ReplyWasSent(t) == turns[t].reply # Undefined

\* C25: telemetry is fire-and-forget: a failure while a telemetry event is
\* built or emitted or a timer is stopped never keeps the reply of the turn
\* from being sent, so a turn fails only in a send or in the dialog, and
\* never turns a turn whose reply was sent into a failed turn
C25_TelemetryNeverBlocksReply ==
  \A t \in Turns :
    /\ Threw(t) => turns[t].error \in WorkErrors
    /\ ReplyWasSent(t) => ~Threw(t)

NotifyStatuses == {200, 404, 500}

Stops(t, name) == Len(turns[t].stops[name])

\* the request of slot t is over
RequestOver(t) == turns[t].stage = "answered"

\* the timer called name, where the request of slot t has started it, was
\* stopped at most once, and once when the request is over
StoppedOnce(t, name) ==
  /\ Stops(t, name) <= 1
  /\ (RequestOver(t) /\ name \in turns[t].started) => Stops(t, name) = 1

\* the ProactiveMessage timer of a notify request was stopped at most once,
\* and once when the request is answered
ProactiveStoppedOnce ==
  \A n \in Notifies :
    /\ Len(notifies[n].stops) <= 1
    /\ notifies[n].pc = "answered" => Len(notifies[n].stops) = 1

\* C27: every operation timer obtained from startOperation is stopped
\* exactly once on every path of the operation that started it, success or
\* failure: never twice, and not zero times once the operation is over
C27_TimersStoppedExactlyOnce ==
  /\ \A t \in Turns : \A name \in TimerNames : StoppedOnce(t, name)
  /\ ProactiveStoppedOnce

\* C28: every inbound message on the free-form chat path, one with no text
\* included, reaches the agent call, sends one reply and ends without an
\* exception: getAIResponse never throws before or outside its own error
\* handling, so a chat turn fails only where a send fails, and a chat turn
\* that is over with its sends in order has called the agent once and sent
\* one reply
C28_ChatTurnCallsAgentAndReplies ==
  \A t \in Turns :
    IsChatTurn(t) =>
      /\ Threw(t) => turns[t].error = "SendError"
      /\ (RequestOver(t) /\ ~Threw(t)) =>
           /\ turns[t].calls = 1
           /\ Count(t, "reply") = 1
           /\ ReplyWasSent(t)

\* the delivery of request n is suspended at continueConversationAsync
Suspended(n) == notifies[n].pc = "delivering"

\* a step of the message pipeline
TurnStep == turns' # turns

\* a step of the message pipeline leaves a suspended notify request as it
\* was, the request then delivers through the reference it had looked up,
\* and no step of the notify handler changes the store
SuspendedNotifyKeepsReference ==
  \A n \in Notifies :
    /\ (Suspended(n) /\ TurnStep) => notifies'[n] = notifies[n]
    /\ (Suspended(n) /\ notifies'[n].status = 200) =>
         notifies'[n].delivered.conv = notifies[n].ref.conv
    /\ notifies'[n] # notifies[n] =>
         conversationReferences' = conversationReferences

\* C29: a notify request that has looked up its reference is not affected
\* by a reset command or an inbound message handled while its delivery is
\* suspended: it keeps the reference it looked up, it is still served, so
\* that it delivers through that reference and answers 200, and the notify
\* handler never adds, replaces or removes a store entry
C29_SuspendedNotifyUnaffected ==
  [][/\ SuspendedNotifyKeepsReference
     /\ \A n \in Notifies :
          (Suspended(n) /\ TurnStep) => nodeProcess' = "running"]_vars

\* the same without the demand that the process lives on
SuspendedNotifyAlwaysKeepsReference == [][SuspendedNotifyKeepsReference]_vars

\* C30: the session id a reset command hands to the clearing of the history,
\* and sends to the clear-history endpoint, is the identifier the chat path
\* sends to the agent for the same user: the directory identity when there
\* is one, the platform user id otherwise
C30_ResetTargetsChatSession ==
  \A t \in Turns :
    TookReset(t) =>
      /\ turns[t].clearSession = SessionOf(t)
      /\ \A i \in 1..Len(turns[t].clearRequests) :
           turns[t].clearRequests[i] = SessionOf(t)

====
